---- MODULE Spec2Model ----
(***************************************************************************)
(* Model of the stream transport of rotor (src/transports/stream.rs):      *)
(* the connection event machine Stream (accept / register / ready /        *)
(* timeout / wakeup), the Transport view handed to protocol callbacks and  *)
(* the Protocol contract.  The socket, the byte buffers' transfer          *)
(* primitives and the protocol implementation are the environment: their   *)
(* outcomes are inputs chosen with \E from small sets.                     *)
(***************************************************************************)
EXTENDS Integers, Sequences, FiniteSets, TLC

(* ------------------------------ bounds -------------------------------- *)
\* most events (socket attempts and callbacks) one call may log before the
\* socket stops offering successful or interrupted transfers
MaxTrace == 6
\* most interrupted attempts the socket reports in one call
MaxIntr == 1
\* capacity the environment lets the inbound buffer reach
MaxInbuf == 300
\* capacity the environment lets the outbound buffer reach
MaxOutbuf == 2
\* the protocol states: opaque to the core, two are enough to see one replaced
FsmSet == {"s0", "s1"}

\* sizes of the chunks a successful read transfers
ReadSizes == {100, 200}
\* byte strings a callback may append to the outbound buffer
AppendChoices == {<<>>, <<1, 2>>}
\* the event sets the reactor may deliver
EventSets == [r : BOOLEAN, w : BOOLEAN]
\* outcomes of one socket transfer attempt
Outcomes == {"ok", "zero", "wb", "intr", "err"}

VARIABLES
    conn,        \* owner's view: "none", "live" (a Stream exists), "dropped"
    registered,  \* register() has been called on the live Stream
    fsm,         \* Stream.1: the protocol state
    inbuf,       \* Inner.inbuf
    outbuf,      \* Inner.outbuf
    readable,    \* Inner.readable
    writable,    \* Inner.writable
    pc,          \* position inside the running call, "idle" between calls
    call,        \* the entry point running, or the last one that ran
    evset,       \* the EventSet argument of the ready call
    monad,       \* the local `monad` of ready: "Continue" or "Stop"
    result,      \* what the last call returned: "Continue", "Stop", "None", "Some"
    trace,       \* socket attempts and protocol callbacks of the call, in order
    entry,       \* the Stream as it was when the call was entered
    lastR,       \* outcome of the most recent read attempt on this socket
    lastW,       \* outcome of the most recent write attempt on this socket
    pending,     \* bytes appended to the outbound buffer and not yet taken by the socket
    txOK,        \* the socket has so far been handed exactly the appended bytes, in order
    mark         \* position in the outbound queue of one tracked appended byte, 0 if none

vars == <<conn, registered, fsm, inbuf, outbuf, readable, writable, pc, call,
          evset, monad, result, trace, entry, lastR, lastW, pending, txOK, mark>>

stream == <<inbuf, outbuf, readable, writable>>
ghost == <<lastR, lastW, pending, txOK, mark>>

(* ------------------------- netbuf::Buf ------------------------------- *)
extend(buf, x) == buf \o x
consume(buf, n) == SubSeq(buf, n + 1, Len(buf))
Prefix(buf, n) == SubSeq(buf, 1, n)
Suffix(buf, n) == SubSeq(buf, Len(buf) - n + 1, Len(buf))

\* the bytes a successful read of n bytes brings
Chunk(n) == [i \in 1..n |-> i % 256]

(* --------------------------- Transport -------------------------------- *)
Transport(inb, outb) == [inbuf |-> inb, outbuf |-> outb]
\* input() handing out the outbound buffer
input_Swapped(t) == t.outbuf
input(t) == t.inbuf
output(t) == t.outbuf

(* ---------------------- continuation algebra -------------------------- *)
\* Async::and_then: the next step runs only on a continuing value
and_then(m, r) == IF m = "Continue" THEN r ELSE "Stop"
\* Async::done: the terminal callback runs only on a continuing value
done(m, cb, f) ==
    IF m = "Continue" THEN <<[op |-> cb, res |-> "", n |-> 0, c |-> 0, f |-> f]>> ELSE <<>>
\* async_try!: Stop returns from the enclosing function
async_try(m, next) == IF m = "Stop" THEN "return" ELSE next

\* a logged socket attempt: its outcome and the bytes it moved
Attempt(op, res, n) == [op |-> op, res |-> res, n |-> n, c |-> 0, f |-> ""]
\* a logged protocol callback: the state it was invoked on, what it returned,
\* the fresh bytes it was shown and the input bytes it consumed
Callback(op, f, res, n, c) == [op |-> op, res |-> res, n |-> n, c |-> c, f |-> f]
Snapshot == [fsm |-> fsm, inbuf |-> inbuf, outbuf |-> outbuf,
             readable |-> readable, writable |-> writable]

TypeOK ==
    /\ conn \in {"none", "live", "dropped"}
    /\ registered \in BOOLEAN
    /\ fsm \in FsmSet
    /\ readable \in BOOLEAN /\ writable \in BOOLEAN
    /\ monad \in {"Continue", "Stop"}
    /\ Len(outbuf) <= MaxOutbuf

Init ==
    /\ conn = "none" /\ registered = FALSE
    /\ fsm = "s0" /\ inbuf = <<>> /\ outbuf = <<>>
    /\ readable = FALSE /\ writable = FALSE
    /\ pc = "idle" /\ call = "none" /\ evset = [r |-> FALSE, w |-> FALSE]
    /\ monad = "Continue" /\ result = "None" /\ trace = <<>>
    /\ entry = Snapshot
    /\ lastR = "none" /\ lastW = "none"
    /\ pending = <<>> /\ txOK = TRUE /\ mark = 0

(* ------------------------------ accept -------------------------------- *)
\* accept starting with the writable flag cleared
AcceptInner_NotWritable ==
    [inbuf |-> <<>>, outbuf |-> <<>>, readable |-> FALSE, writable |-> FALSE]
\* the Inner built by accept
AcceptInner == [inbuf |-> <<>>, outbuf |-> <<>>, readable |-> FALSE, writable |-> TRUE]

\* Init::accept: x is what Protocol::accepted returns
Accept ==
    /\ pc = "idle" /\ conn \in {"none", "dropped"}
    /\ \E x \in FsmSet \cup {"None"} :
        /\ call' = "accept"
        /\ trace' = <<Callback("accepted", "", x, 0, 0)>>
        /\ entry' = Snapshot
        /\ IF x = "None"
             THEN /\ result' = "None"
                  /\ UNCHANGED <<conn, registered, fsm, stream, ghost>>
             ELSE /\ result' = "Some" /\ conn' = "live"
                  /\ registered' = FALSE
                  /\ lastR' = "none" /\ lastW' = "none"
                  /\ pending' = <<>> /\ txOK' = TRUE /\ mark' = 0
                  /\ fsm' = x
                  /\ inbuf' = AcceptInner.inbuf
                  /\ outbuf' = AcceptInner.outbuf
                  /\ readable' = AcceptInner.readable
                  /\ writable' = AcceptInner.writable
    /\ UNCHANGED <<pc, evset, monad>>

(* ----------------------------- register ------------------------------- *)
Register ==
    /\ pc = "idle" /\ conn = "live" /\ ~registered
    /\ registered' = TRUE
    /\ call' = "register" /\ result' = "Continue" /\ trace' = <<>>
    /\ entry' = Snapshot
    /\ UNCHANGED <<conn, fsm, stream, pc, evset, monad, ghost>>

(* --------------------------- Protocol --------------------------------- *)
\* a data_received implementation: consumes c bytes of input, appends a to output
data_received(t, c, a) == Transport(consume(input(t), c), extend(output(t), a))
\* a data_transferred implementation: appends a to output
data_transferred(t, a) == Transport(input(t), extend(output(t), a))
\* the state a continuing callback returns
NextFsm(f) == IF f = "s0" THEN "s1" ELSE "s0"
\* how much of its input a data_received may consume
ConsumeChoices(buf) == {0, Len(buf)}
CbResults == {"Continue", "Stop"}

(* ------------------------------ ready --------------------------------- *)
\* WriteArm whose WouldBlock arm leaves the writable flag set
WriteArm_KeepsWritable(res, w) ==
    CASE res = "zero" -> [go |-> "return", term |-> "eof_received", flag |-> w]
      [] res = "ok"   -> [go |-> "callback", term |-> "none", flag |-> w]
      [] res = "wb"   -> [go |-> "break", term |-> "none", flag |-> w]
      [] res = "intr" -> [go |-> "continue", term |-> "none", flag |-> w]
      [] res = "err"  -> [go |-> "return", term |-> "error_happened", flag |-> w]

\* WriteArm whose Ok(_) arm loops on without invoking data_transferred
WriteArm_SkipsCallback(res, w) ==
    CASE res = "zero" -> [go |-> "return", term |-> "eof_received", flag |-> w]
      [] res = "ok"   -> [go |-> "continue", term |-> "none", flag |-> w]
      [] res = "wb"   -> [go |-> "break", term |-> "none", flag |-> FALSE]
      [] res = "intr" -> [go |-> "continue", term |-> "none", flag |-> w]
      [] res = "err"  -> [go |-> "return", term |-> "error_happened", flag |-> w]

\* WriteArm whose WouldBlock arm tries again at once
WriteArm_WouldBlockRetries(res, w) ==
    CASE res = "zero" -> [go |-> "return", term |-> "eof_received", flag |-> w]
      [] res = "ok"   -> [go |-> "callback", term |-> "none", flag |-> w]
      [] res = "wb"   -> [go |-> "continue", term |-> "none", flag |-> w]
      [] res = "intr" -> [go |-> "continue", term |-> "none", flag |-> w]
      [] res = "err"  -> [go |-> "return", term |-> "error_happened", flag |-> w]

\* WriteArm whose Ok(_) arm leaves the loop after a single write
WriteArm_OneWriteOnly(res, w) ==
    CASE res = "zero" -> [go |-> "return", term |-> "eof_received", flag |-> w]
      [] res = "ok"   -> [go |-> "break", term |-> "none", flag |-> w]
      [] res = "wb"   -> [go |-> "break", term |-> "none", flag |-> FALSE]
      [] res = "intr" -> [go |-> "continue", term |-> "none", flag |-> w]
      [] res = "err"  -> [go |-> "return", term |-> "error_happened", flag |-> w]

\* the match on the result of outbuf.write_to: what the arm does next, the
\* terminal callback it invokes and the cached flag it leaves
WriteArm(res, w) ==
    CASE res = "zero" -> [go |-> "return", term |-> "eof_received", flag |-> w]
      [] res = "ok"   -> [go |-> "callback", term |-> "none", flag |-> w]
      [] res = "wb"   -> [go |-> "break", term |-> "none", flag |-> FALSE]
      [] res = "intr" -> [go |-> "continue", term |-> "none", flag |-> w]
      [] res = "err"  -> [go |-> "return", term |-> "error_happened", flag |-> w]

\* ReadArm without the `return Async::Stop` of its Ok(0) arm
ReadArm_EofFallsThrough(res, r) ==
    CASE res = "zero" -> [go |-> "break", term |-> "eof_received", flag |-> r]
      [] res = "ok"   -> [go |-> "callback", term |-> "none", flag |-> r]
      [] res = "wb"   -> [go |-> "break", term |-> "none", flag |-> FALSE]
      [] res = "intr" -> [go |-> "continue", term |-> "none", flag |-> r]
      [] res = "err"  -> [go |-> "return", term |-> "error_happened", flag |-> r]

\* ReadArm whose Ok(_) arm loops on without invoking data_received
ReadArm_SkipsCallback(res, r) ==
    CASE res = "zero" -> [go |-> "return", term |-> "eof_received", flag |-> r]
      [] res = "ok"   -> [go |-> "continue", term |-> "none", flag |-> r]
      [] res = "wb"   -> [go |-> "break", term |-> "none", flag |-> FALSE]
      [] res = "intr" -> [go |-> "continue", term |-> "none", flag |-> r]
      [] res = "err"  -> [go |-> "return", term |-> "error_happened", flag |-> r]

\* ReadArm whose Interrupted arm is handled like WouldBlock
ReadArm_IntrBreaks(res, r) ==
    CASE res = "zero" -> [go |-> "return", term |-> "eof_received", flag |-> r]
      [] res = "ok"   -> [go |-> "callback", term |-> "none", flag |-> r]
      [] res = "wb"   -> [go |-> "break", term |-> "none", flag |-> FALSE]
      [] res = "intr" -> [go |-> "break", term |-> "none", flag |-> FALSE]
      [] res = "err"  -> [go |-> "return", term |-> "error_happened", flag |-> r]

\* ReadArm whose WouldBlock arm leaves the readable flag set
ReadArm_KeepsReadable(res, r) ==
    CASE res = "zero" -> [go |-> "return", term |-> "eof_received", flag |-> r]
      [] res = "ok"   -> [go |-> "callback", term |-> "none", flag |-> r]
      [] res = "wb"   -> [go |-> "break", term |-> "none", flag |-> r]
      [] res = "intr" -> [go |-> "continue", term |-> "none", flag |-> r]
      [] res = "err"  -> [go |-> "return", term |-> "error_happened", flag |-> r]

\* ReadArm whose Err(e) arm breaks out of the loop instead of returning
ReadArm_ErrBreaks(res, r) ==
    CASE res = "zero" -> [go |-> "return", term |-> "eof_received", flag |-> r]
      [] res = "ok"   -> [go |-> "callback", term |-> "none", flag |-> r]
      [] res = "wb"   -> [go |-> "break", term |-> "none", flag |-> FALSE]
      [] res = "intr" -> [go |-> "continue", term |-> "none", flag |-> r]
      [] res = "err"  -> [go |-> "break", term |-> "error_happened", flag |-> r]

\* the match on the result of inbuf.read_from
ReadArm(res, r) ==
    CASE res = "zero" -> [go |-> "return", term |-> "eof_received", flag |-> r]
      [] res = "ok"   -> [go |-> "callback", term |-> "none", flag |-> r]
      [] res = "wb"   -> [go |-> "break", term |-> "none", flag |-> FALSE]
      [] res = "intr" -> [go |-> "continue", term |-> "none", flag |-> r]
      [] res = "err"  -> [go |-> "return", term |-> "error_happened", flag |-> r]

\* Phase A skipped when the event set also marks readable
PhaseAGuard_NotWithReadable(ev, ob) == ev.w /\ ~ev.r /\ Len(ob) > 0
\* the conditions that open the three phases
PhaseAGuard(ev, ob) == ev.w /\ Len(ob) > 0
\* Phase B entered on any notification
PhaseBGuard_AnyEvent(ev) == ev.r \/ ev.w
PhaseBGuard(ev) == ev.r
\* the opportunistic flush made without looking at the cached flag
PhaseCGuard_IgnoresFlag(w, ob) == Len(ob) > 0
\* the opportunistic flush made only when the event set marked writable
PhaseCGuard_NeedsEvent(w, ob) == w /\ Len(ob) > 0 /\ evset.w
\* ready without the opportunistic flush
PhaseCGuard_Never(w, ob) == FALSE
PhaseCGuard(w, ob) == w /\ Len(ob) > 0

\* the socket may report a successful or an interrupted transfer only while
\* the call's budget lasts
Budget(o) ==
    /\ (o = "ok") => (Len(trace) + 2 <= MaxTrace)
    /\ (o = "intr") => /\ Len(trace) + 1 <= MaxTrace
                       /\ Cardinality({i \in 1..Len(trace) : trace[i].res = "intr"}) < MaxIntr

\* where the call goes after an arm: back into the loop, out of it, or out of ready
Goto(arm, m, loop, exit) ==
    CASE arm.go = "callback" -> async_try(m, loop)
      [] arm.go = "continue" -> loop
      [] arm.go = "break"    -> exit
      [] arm.go = "return"   -> "return"

\* leaving ready with Async::Stop, or staying inside it at `next`
Leave(next) ==
    IF next = "return"
      THEN pc' = "idle" /\ result' = "Stop" /\ conn' = "dropped"
      ELSE pc' = next /\ UNCHANGED <<result, conn>>

ReadyCall ==
    /\ pc = "idle" /\ conn = "live" /\ registered
    /\ \E ev \in EventSets : evset' = ev
    /\ call' = "ready" /\ monad' = "Continue" /\ trace' = <<>>
    /\ result' = "pending" /\ entry' = Snapshot
    /\ pc' = "phaseA"
    /\ UNCHANGED <<conn, registered, fsm, stream, ghost>>

PhaseA ==
    /\ pc = "phaseA"
    /\ IF PhaseAGuard(evset, outbuf)
         THEN writable' = TRUE /\ pc' = "A_while"
         ELSE UNCHANGED writable /\ pc' = "phaseB"
    /\ UNCHANGED <<conn, registered, fsm, inbuf, outbuf, readable, call, evset,
                   monad, result, trace, entry, ghost>>

\* one turn of a write loop: the while test, one write_to and the arm taken
WriteLoop(loop, exit) ==
    /\ pc = loop
    /\ IF Len(outbuf) = 0
         THEN /\ pc' = exit
              /\ UNCHANGED <<conn, fsm, stream, monad, result, trace, ghost>>
         ELSE \E o \in Outcomes, n \in 1..Len(outbuf), a \in AppendChoices,
                 r \in CbResults, mk \in BOOLEAN :
              /\ Budget(o)
              /\ (o # "ok") => (n = 1 /\ a = <<>> /\ r = "Continue" /\ ~mk)
              /\ LET arm == WriteArm(o, writable)
                     taken == IF o = "ok" THEN Prefix(outbuf, n) ELSE <<>>
                     written == consume(outbuf, Len(taken))
                     invoked == arm.go = "callback" /\ monad = "Continue"
                     t == data_transferred(Transport(inbuf, written), a)
                     m2 == IF arm.go = "callback" THEN and_then(monad, r) ELSE monad
                     m1 == IF mark > Len(taken) THEN mark - Len(taken) ELSE 0
                 IN  /\ Len(written) + Len(a) <= MaxOutbuf
                     /\ (~invoked) => (a = <<>> /\ r = "Continue")
                     /\ mk => (a # <<>> /\ mark = 0)
                     /\ inbuf' = IF invoked THEN input(t) ELSE inbuf
                     /\ outbuf' = IF invoked THEN output(t) ELSE written
                     /\ writable' = arm.flag
                     /\ fsm' = IF invoked /\ r = "Continue" THEN NextFsm(fsm) ELSE fsm
                     /\ monad' = m2
                     /\ trace' = trace \o <<Attempt("write", o, Len(taken))>>
                                 \o (IF invoked THEN <<Callback("data_transferred", fsm, r, Len(taken), 0)>> ELSE <<>>)
                                 \o (IF arm.term # "none" THEN done(monad, arm.term, fsm) ELSE <<>>)
                     /\ lastW' = o
                     /\ txOK' = (txOK /\ taken = Prefix(pending, Len(taken)))
                     /\ pending' = extend(consume(pending, Len(taken)), a)
                     /\ mark' = IF mk THEN Len(written) + Len(a) ELSE m1
                     /\ Leave(Goto(arm, m2, loop, exit))
                     /\ UNCHANGED <<readable, lastR>>
    /\ UNCHANGED <<registered, call, evset, entry>>

PhaseALoop == WriteLoop("A_while", "phaseB")

PhaseB ==
    /\ pc = "phaseB"
    /\ IF PhaseBGuard(evset)
         THEN readable' = TRUE /\ pc' = "B_loop"
         ELSE UNCHANGED readable /\ pc' = "phaseC"
    /\ UNCHANGED <<conn, registered, fsm, inbuf, outbuf, writable, call, evset,
                   monad, result, trace, entry, ghost>>

\* one turn of the read loop: one read_from and the arm taken
PhaseBLoop ==
    /\ pc = "B_loop"
    /\ \E o \in Outcomes, n \in ReadSizes, a \in AppendChoices, r \in CbResults,
          mk \in BOOLEAN :
        /\ Budget(o)
        /\ (o = "ok") => (Len(inbuf) + n <= MaxInbuf)
        /\ (o # "ok") => (n = 100 /\ a = <<>> /\ r = "Continue" /\ ~mk)
        /\ LET arm == ReadArm(o, readable)
               got == IF o = "ok" THEN Chunk(n) ELSE <<>>
               filled == extend(inbuf, got)
               invoked == arm.go = "callback" /\ monad = "Continue"
               m2 == IF arm.go = "callback" THEN and_then(monad, r) ELSE monad
           IN  \E c \in ConsumeChoices(filled) :
               LET t == data_received(Transport(filled, outbuf), c, a)
                   seen == IF Suffix(input(Transport(filled, outbuf)), Len(got)) = got
                             THEN Len(got) ELSE -1
               IN  /\ Len(outbuf) + Len(a) <= MaxOutbuf
                   /\ (~invoked) => (a = <<>> /\ r = "Continue" /\ c = 0)
                   /\ mk => (a # <<>> /\ mark = 0)
                   /\ inbuf' = IF invoked THEN input(t) ELSE filled
                   /\ outbuf' = IF invoked THEN output(t) ELSE outbuf
                   /\ readable' = arm.flag
                   /\ fsm' = IF invoked /\ r = "Continue" THEN NextFsm(fsm) ELSE fsm
                   /\ monad' = m2
                   /\ trace' = trace \o <<Attempt("read", o, Len(got))>>
                               \o (IF invoked THEN <<Callback("data_received", fsm, r, seen, c)>> ELSE <<>>)
                               \o (IF arm.term # "none" THEN done(monad, arm.term, fsm) ELSE <<>>)
                   /\ lastR' = o
                   /\ pending' = extend(pending, a)
                   /\ mark' = IF mk THEN Len(outbuf) + Len(a) ELSE mark
                   /\ Leave(Goto(arm, m2, "B_loop", "phaseC"))
                   /\ UNCHANGED <<writable, lastW, txOK>>
    /\ UNCHANGED <<registered, call, evset, entry>>

PhaseC ==
    /\ pc = "phaseC"
    /\ pc' = IF PhaseCGuard(writable, outbuf) THEN "C_while" ELSE "ret"
    /\ UNCHANGED <<conn, registered, fsm, stream, call, evset,
                   monad, result, trace, entry, ghost>>

PhaseCLoop == WriteLoop("C_while", "ret")

\* monad.map(rebuild).map_result(None)
Rebuild ==
    /\ pc = "ret"
    /\ pc' = "idle"
    /\ IF monad = "Continue"
         THEN result' = "Continue" /\ UNCHANGED conn
         ELSE result' = "Stop" /\ conn' = "dropped"
    /\ UNCHANGED <<registered, fsm, stream, call, evset, monad, trace, entry, ghost>>

(* ------------------------ timeout and wakeup -------------------------- *)
\* forwards to the protocol method `which`; r is what that method returns
\* both entry points forwarding to fsm.timeout
ForwardedMethod_AlwaysTimeout(which) == "timeout"
\* the protocol method the entry point forwards to
ForwardedMethod(which) == which

Forward(which) ==
    /\ pc = "idle" /\ conn = "live" /\ registered
    /\ \E r \in CbResults :
        /\ call' = which
        /\ trace' = <<Callback(ForwardedMethod(which), fsm, r, 0, 0)>>
        /\ entry' = Snapshot
        /\ monad' = r
        /\ IF async_try(r, "map") = "return"
             THEN result' = "Stop" /\ conn' = "dropped" /\ UNCHANGED fsm
             ELSE result' = "Continue" /\ UNCHANGED conn /\ fsm' = NextFsm(fsm)
    /\ UNCHANGED <<registered, stream, pc, evset, ghost>>

Timeout == Forward("timeout")
Wakeup == Forward("wakeup")

Next ==
    \/ Accept
    \/ Register
    \/ ReadyCall
    \/ PhaseA
    \/ PhaseALoop
    \/ PhaseB
    \/ PhaseBLoop
    \/ PhaseC
    \/ PhaseCLoop
    \/ Rebuild
    \/ Timeout
    \/ Wakeup

Spec == Init /\ [][Next]_vars

(* ---------------------------- fairness -------------------------------- *)
\* a step of the running call
CallStep ==
    PhaseA \/ PhaseALoop \/ PhaseB \/ PhaseBLoop \/ PhaseC \/ PhaseCLoop \/ Rebuild
\* the reactor delivers the writable notification that follows a write would-block
WritableEvent == ReadyCall /\ evset'.w /\ lastW = "wb"
\* the socket accepts bytes
WriteAccepted == (PhaseALoop \/ PhaseCLoop) /\ lastW' = "ok" /\ trace' # trace

LiveSpec ==
    /\ Init /\ [][Next]_vars
    /\ WF_vars(CallStep) /\ WF_vars(Register)
    /\ SF_vars(WritableEvent) /\ SF_vars(WriteAccepted)


(* ------------------------- reading the log ---------------------------- *)
IsTerminal(e) == e.op \in {"eof_received", "error_happened"}
IsAttempt(e) == e.op \in {"read", "write"}
IsRead(e) == e.op = "read"
IsWrite(e) == e.op = "write"
IsCallback(e) == ~IsAttempt(e)
\* a step that yields Stop: a terminal notification or a callback returning Stop
YieldsStop(e) == IsTerminal(e) \/ (IsCallback(e) /\ e.res = "Stop")
\* a transfer outcome that is terminal: zero bytes or a non-transient error
IsFatal(e) == IsAttempt(e) /\ e.res \in {"zero", "err"}
Terminals == {i \in DOMAIN trace : IsTerminal(trace[i])}
Reads == SelectSeq(trace, IsRead)
Writes == SelectSeq(trace, IsWrite)
InCall(names) == call \in names
Returned(name) == call = name /\ pc = "idle"

(* ------------------------------ claims -------------------------------- *)
\* C1: in one call of ready, timeout or wakeup at most one terminal
\* notification (eof_received or error_happened) is invoked, and a call that
\* invoked one has returned Stop.
C1_AtMostOneTerminal ==
    InCall({"ready", "timeout", "wakeup"}) =>
        /\ Cardinality(Terminals) <= 1
        /\ (Terminals # {}) => (pc = "idle" /\ result = "Stop")

\* a ready call that ran non-terminal callbacks and then one terminal notification
C1_Witness ==
    /\ Returned("ready") /\ result = "Stop"
    /\ Cardinality(Terminals) = 1
    /\ \E i \in DOMAIN trace : trace[i].op = "data_received" /\ trace[i].res = "Continue"
    /\ \E i \in DOMAIN trace : trace[i].op = "data_transferred" /\ trace[i].res = "Continue"

\* C2: once a step of a ready call yields Stop, nothing follows it in that
\* call: a terminal notification or a callback returning Stop is the last
\* logged event and the call has returned Stop; a zero-byte transfer or a
\* non-transient error is followed by its one terminal notification only.
C2_NothingAfterStop ==
    InCall({"ready"}) =>
        \A i \in DOMAIN trace :
            /\ YieldsStop(trace[i]) =>
                   (i = Len(trace) /\ pc = "idle" /\ result = "Stop")
            /\ IsFatal(trace[i]) =>
                   (i + 1 = Len(trace) /\ IsTerminal(trace[i + 1]))

\* data_received appended output, the socket is believed writable, a later
\* read failed: error_happened is the last event and Phase C wrote nothing
C2_Witness ==
    /\ Returned("ready") /\ result = "Stop"
    /\ Len(trace) >= 4
    /\ trace[Len(trace)].op = "error_happened"
    /\ trace[Len(trace) - 1] = Attempt("read", "err", 0)
    /\ trace[Len(trace) - 2].op = "data_received"
    /\ outbuf # <<>> /\ writable /\ entry.outbuf = <<>>

\* C3: the socket is handed exactly the bytes appended through
\* Transport.output(), in append order (what it has taken so far followed by
\* the outbound buffer is what was appended), and every appended byte is
\* eventually taken by the socket unless the connection is stopped first,
\* when the reactor delivers a writable event after each write would-block
\* and the socket eventually accepts bytes; output is left over between
\* calls only after a write would-block, the case that event answers.
C3_OutputPresented ==
    /\ [](txOK /\ pending = outbuf)
    /\ []((pc = "idle" /\ conn = "live" /\ outbuf # <<>>) => lastW = "wb")
    /\ (mark > 0) ~> (mark = 0 \/ conn = "dropped")

\* output left over from an earlier call was taken by the socket in this one
C3_Witness ==
    /\ Returned("ready") /\ result = "Continue"
    /\ entry.outbuf # <<>> /\ ~entry.writable
    /\ outbuf = <<>> /\ mark = 0 /\ txOK
    /\ \E i \in DOMAIN trace : trace[i] = Attempt("write", "ok", 1)

RECURSIVE SumN(_, _)
\* the bytes moved (n) by the first k events of a log
SumN(log, k) == IF k = 0 THEN 0 ELSE log[k].n + SumN(log, k - 1)
RECURSIVE SumC(_, _)
\* the bytes consumed (c) by the first k events of a log
SumC(log, k) == IF k = 0 THEN 0 ELSE log[k].c + SumC(log, k - 1)
Received == SelectSeq(trace, LAMBDA e : e.op = "data_received")
BytesRead == SumN(Reads, Len(Reads))
BytesDelivered == SumN(Received, Len(Received))
BytesConsumed == SumC(Received, Len(Received))

\* C4: in one ready call every positive-byte read is followed at once by one
\* data_received that finds exactly those bytes at the end of
\* Transport.input(), data_received runs for no other reason, the bytes
\* delivered total the bytes read, and the inbound buffer holds what it held
\* at entry plus the bytes read minus the bytes consumed.
C4_ReadsDelivered ==
    InCall({"ready"}) =>
        /\ \A i \in DOMAIN trace :
              (IsRead(trace[i]) /\ trace[i].res = "ok") =>
                  /\ trace[i].n > 0
                  /\ i < Len(trace)
                  /\ trace[i + 1].op = "data_received"
                  /\ trace[i + 1].n = trace[i].n
        /\ \A i \in DOMAIN trace :
              (trace[i].op = "data_received") =>
                  (i > 1 /\ IsRead(trace[i - 1]) /\ trace[i - 1].res = "ok")
        /\ BytesDelivered = BytesRead
        /\ Len(inbuf) = Len(entry.inbuf) + BytesRead - BytesConsumed

\* reads of different sizes, between a flush and a would-block, all delivered
C4_Witness ==
    /\ Returned("ready") /\ result = "Continue"
    /\ evset.r /\ evset.w
    /\ \E i, j \in DOMAIN Reads : Reads[i].n = 100 /\ Reads[j].n = 200
    /\ BytesDelivered = 300
    /\ \E i \in DOMAIN trace : trace[i].op = "data_transferred"

\* C5: a ready call whose event set does not mark readable and that finds the
\* outbound buffer empty invokes no callback, attempts no transfer, leaves
\* protocol state, buffers and both flags as they were and returns Continue.
C5_NothingToDo ==
    (InCall({"ready"}) /\ ~evset.r /\ entry.outbuf = <<>>) =>
        /\ trace = <<>>
        /\ Snapshot = entry
        /\ (pc = "idle") => (result = "Continue" /\ conn = "live")

\* the first ready after accept and register, with a writable-only event set
C5_Witness ==
    /\ Returned("ready") /\ result = "Continue"
    /\ evset = [r |-> FALSE, w |-> TRUE]
    /\ entry = [fsm |-> "s1", inbuf |-> <<>>, outbuf |-> <<>>,
                readable |-> FALSE, writable |-> TRUE]
    /\ lastW = "none" /\ lastR = "none"

\* C6: accept invokes Protocol::accepted once and attempts no transfer; when
\* that returns nothing no connection is created, otherwise the connection
\* holds the returned state, two empty buffers, readable=false, writable=true.
C6_Accept ==
    Returned("accept") =>
        /\ Len(trace) = 1 /\ trace[1].op = "accepted"
        /\ (trace[1].res = "None") => (result = "None" /\ conn # "live")
        /\ (trace[1].res # "None") =>
              /\ result = "Some" /\ conn = "live"
              /\ fsm = trace[1].res
              /\ inbuf = <<>> /\ outbuf = <<>>
              /\ ~readable /\ writable

\* a connection accepted after an earlier one was dropped with data buffered
C6_Witness ==
    /\ Returned("accept") /\ conn = "live" /\ fsm = "s1"
    /\ entry.inbuf # <<>> /\ entry.outbuf # <<>> /\ ~entry.writable
    /\ writable /\ inbuf = <<>> /\ outbuf = <<>>

RECURSIVE BytesOf(_, _)
\* the bytes the first k read attempts of a log brought, in order
BytesOf(log, k) == IF k = 0 THEN <<>> ELSE BytesOf(log, k - 1) \o Chunk(log[k].n)
Results(log) == [i \in DOMAIN log |-> log[i].res]
\* three reads succeeded, 300 bytes in all, and the fourth reported would-block
ThreeReadsThenWouldBlock ==
    /\ Results(Reads) = <<"ok", "ok", "ok", "wb">>
    /\ BytesRead = 300
\* the writable flag as the write attempts made so far leave it
WritableAfterWrites ==
    IF Writes = <<>> THEN entry.writable ELSE Writes[Len(Writes)].res # "wb"

\* C7 as stated: such a call returns Continue with readable cleared, writable
\* equal to its value at entry, and the inbound buffer holding the 300 bytes
\* read minus the bytes consumed by data_received.
C7_AsStated ==
    (Returned("ready") /\ ThreeReadsThenWouldBlock) =>
        /\ result = "Continue"
        /\ ~readable
        /\ writable = entry.writable
        /\ Len(inbuf) = 300 - BytesConsumed

\* C7 amended: the would-block clears readable and leaves writable as the
\* write attempts before it left it; the inbound buffer is what it held at
\* entry followed by the 300 bytes read, less the consumed front; a call that
\* attempts no write returns Continue with writable as at entry.
C7_WouldBlockAfterReads ==
    (InCall({"ready"}) /\ ThreeReadsThenWouldBlock) =>
        /\ ~readable
        /\ Len(inbuf) = Len(entry.inbuf) + 300 - BytesConsumed
        /\ inbuf = Suffix(entry.inbuf \o BytesOf(Reads, Len(Reads)), Len(inbuf))
        /\ (pc = "phaseC") => (writable = WritableAfterWrites)
        /\ (Writes = <<>>) =>
              /\ writable = entry.writable
              /\ (pc = "idle") => (result = "Continue")

\* three reads of 100 bytes, the first 100 consumed, no write attempted
C7_Witness ==
    /\ Returned("ready") /\ ThreeReadsThenWouldBlock
    /\ result = "Continue" /\ Writes = <<>>
    /\ BytesConsumed = 100 /\ Len(inbuf) = 200
    /\ ~readable /\ writable

\* C8: in a ready call whose event set marks readable and writable, entered
\* with output buffered, in which a read returns zero bytes: the first socket
\* operation is a Phase-A write, no write follows any read, the zero-byte
\* read is followed by eof_received and nothing else, eof_received is invoked
\* once, and the call returns Stop.
C8_EofAfterFlush ==
    (InCall({"ready"}) /\ evset.r /\ evset.w /\ entry.outbuf # <<>>
        /\ \E i \in DOMAIN trace : trace[i] = Attempt("read", "zero", 0)) =>
        /\ IsWrite(trace[1])
        /\ \A i, j \in DOMAIN trace :
              (i < j /\ IsRead(trace[i])) =>
                  (~IsWrite(trace[j]) /\ trace[j].op # "data_transferred")
        /\ \A i \in DOMAIN trace :
              (trace[i] = Attempt("read", "zero", 0)) =>
                  (i + 1 = Len(trace) /\ trace[i + 1].op = "eof_received")
        /\ Cardinality({i \in DOMAIN trace : trace[i].op = "eof_received"}) = 1
        /\ pc = "idle" /\ result = "Stop"

\* Phase A transferred output, data_received appended more, then the read
\* returned zero with the socket still believed writable
C8_Witness ==
    /\ Returned("ready") /\ result = "Stop"
    /\ evset.r /\ evset.w /\ entry.outbuf # <<>>
    /\ trace[1].op = "write" /\ trace[1].res = "ok"
    /\ Len(trace) >= 2 /\ trace[Len(trace) - 1] = Attempt("read", "zero", 0)
    /\ outbuf # <<>> /\ writable

\* the step logs one transfer attempt in direction op that reports would-block
WouldBlockStep(op) == trace' = trace \o <<Attempt(op, "wb", 0)>>

\* C9: in every connection the owner holds between calls a cached flag is
\* true only if the most recent attempt in its direction did not report
\* would-block; the attempt that reports would-block clears the flag; a
\* cleared flag is set again only by a ready call whose event set carries the
\* notification (or belongs to a newly accepted connection).
C9_FlagsTrackWouldBlock ==
    /\ []((pc = "idle" /\ conn = "live") =>
            /\ writable => lastW # "wb"
            /\ readable => lastR # "wb")
    /\ [][/\ WouldBlockStep("write") => ~writable'
          /\ WouldBlockStep("read") => ~readable'
          /\ (~writable /\ writable') =>
                (call' = "accept" \/ (call' = "ready" /\ evset'.w))
          /\ (~readable /\ readable') => (call' = "ready" /\ evset'.r)]_vars

\* a writable notification set the cleared flag again and the writes then
\* succeeded; the reads ended in would-block
C9_Witness ==
    /\ Returned("ready") /\ result = "Continue" /\ conn = "live"
    /\ evset.r /\ evset.w
    /\ ~entry.writable /\ writable /\ lastW = "ok"
    /\ ~readable /\ lastR = "wb"

\* C10: when ready returns Continue, a marked readable was read until
\* would-block, and if a write phase was entered the outbound buffer is empty
\* or the last write attempt of the call reported would-block.
C10_Quiescence ==
    (Returned("ready") /\ result = "Continue") =>
        /\ evset.r => (Reads # <<>> /\ Reads[Len(Reads)].res = "wb")
        /\ (PhaseAGuard(evset, entry.outbuf) \/ Writes # <<>>) =>
              \/ outbuf = <<>>
              \/ (Writes # <<>> /\ Writes[Len(Writes)].res = "wb")

\* reads and writes both made progress and both ended in would-block
C10_Witness ==
    /\ Returned("ready") /\ result = "Continue"
    /\ evset.r /\ evset.w
    /\ \E i \in DOMAIN Reads : Reads[i].res = "ok"
    /\ \E i \in DOMAIN Writes : Writes[i].res = "ok"
    /\ outbuf # <<>> /\ Writes[Len(Writes)].res = "wb"
    /\ Reads[Len(Reads)].res = "wb"

\* the step logs a transfer attempt in direction op
AttemptStep(op) ==
    /\ pc # "idle"
    /\ Len(trace') > Len(trace)
    /\ trace'[Len(trace) + 1].op = op

\* C11: in a ready call whose event set marks writable and readable, entered
\* with output buffered, the first socket operation is a write, and the first
\* read is attempted only once the Phase-A write loop has ended: the
\* outbound buffer is empty or the last write attempt reported would-block.
C11_FlushBeforeFill ==
    /\ []((InCall({"ready"}) /\ evset.r /\ evset.w /\ entry.outbuf # <<>>
            /\ trace # <<>>) => IsWrite(trace[1]))
    /\ [][(call = "ready" /\ evset.r /\ evset.w /\ entry.outbuf # <<>>
            /\ AttemptStep("read") /\ Reads = <<>>) =>
              /\ Writes # <<>>
              /\ outbuf = <<>> \/ Writes[Len(Writes)].res = "wb"]_vars

\* Phase A wrote, ran into would-block with output left, and reads followed
C11_Witness ==
    /\ InCall({"ready"}) /\ evset.r /\ evset.w /\ entry.outbuf # <<>>
    /\ Len(trace) >= 4
    /\ trace[1] = Attempt("write", "ok", 1)
    /\ trace[3] = Attempt("write", "wb", 0)
    /\ trace[4].op = "read" /\ trace[4].res = "ok"
    /\ outbuf # <<>>

\* C12: when Phase B ends without Stop with the writable flag cached and
\* output buffered, the call goes on to write it before returning, whatever
\* the event set marked: the flush loop is entered and attempts a write, and
\* a call entered with the flag cached and no writable event never ends its
\* phases with output buffered and no write attempted.
C12_OpportunisticFlush ==
    /\ [](((pc = "ret" \/ (Returned("ready") /\ result = "Continue"))
            /\ call = "ready" /\ ~evset.w /\ entry.writable /\ outbuf # <<>>)
              => Writes # <<>>)
    /\ [][(pc = "phaseC" /\ writable /\ outbuf # <<>>) => pc' = "C_while"]_vars
    /\ [][(pc = "C_while" /\ outbuf # <<>>) => AttemptStep("write")]_vars

\* a readable-only event: data_received appended output and Phase C wrote it
C12_Witness ==
    /\ Returned("ready") /\ result = "Continue"
    /\ evset = [r |-> TRUE, w |-> FALSE]
    /\ entry.outbuf = <<>> /\ entry.writable
    /\ \E i \in DOMAIN trace :
          /\ trace[i].op = "data_received"
          /\ \E j \in DOMAIN trace : j > i /\ trace[j] = Attempt("write", "ok", 2)
    /\ outbuf = <<>> /\ writable

\* the loop position a transient of direction op leaves the call at
LoopOf(op) == IF op = "read" THEN {"B_loop"} ELSE {"A_while", "C_while"}

\* the step logs exactly one attempt of direction op with outcome res
TransientStep(op, res) ==
    /\ pc # "idle"
    /\ trace' = Append(trace, Attempt(op, res, 0))

\* C13: a would-block or interrupted attempt invokes no callback and does
\* not by itself make ready return Stop. An interrupted attempt changes no
\* flag and no buffer and is followed at once by another attempt in the same
\* direction; a would-block ends only the loop of its phase, so that after a
\* Phase-A would-block a readable event still gets its reads.
C13_TransientsAbsorbed ==
    /\ [](InCall({"ready"}) => \A i \in DOMAIN trace :
            (IsAttempt(trace[i]) /\ trace[i].res \in {"wb", "intr"}) =>
              /\ i < Len(trace) => IsAttempt(trace[i + 1])
              /\ i = Len(trace) => (pc # "idle" \/ result = "Continue")
              /\ trace[i].res = "intr" =>
                    /\ i < Len(trace) => trace[i + 1].op = trace[i].op
                    /\ i = Len(trace) => pc \in LoopOf(trace[i].op)
              /\ (trace[i].res = "wb" /\ IsWrite(trace[i]) /\ evset.r
                     /\ pc = "idle"
                     /\ \A j \in 1..(i - 1) : ~IsRead(trace[j])) =>
                    \E j \in (i + 1)..Len(trace) : IsRead(trace[j]))
    /\ [][\A op \in {"read", "write"} :
            /\ TransientStep(op, "intr") =>
                  /\ pc' = pc
                  /\ UNCHANGED <<stream, fsm, conn, result, monad>>
            /\ TransientStep(op, "wb") =>
                  /\ pc' \notin LoopOf(op) /\ pc' # "idle"
                  /\ UNCHANGED <<inbuf, outbuf, fsm, conn, result, monad>>]_vars

\* an interrupted write retried, then a would-block in Phase A, then reads
C13_Witness ==
    /\ Returned("ready") /\ result = "Continue" /\ evset.r /\ evset.w
    /\ Len(trace) >= 4
    /\ trace[1] = Attempt("write", "intr", 0)
    /\ trace[2] = Attempt("write", "wb", 0)
    /\ trace[3].op = "read" /\ trace[3].res = "ok"
    /\ trace[Len(trace)] = Attempt("read", "wb", 0)

\* C14: timeout and wakeup invoke exactly the matching protocol method, once,
\* with the stored state, attempt no transfer and leave buffers and flags as
\* they were; the result is Stop exactly when the method returned Stop, and
\* otherwise Continue with the state the method returned.
C14_TimerAndWakeup ==
    (pc = "idle" /\ call \in {"timeout", "wakeup"}) =>
        /\ Len(trace) = 1
        /\ trace[1].op = call /\ trace[1].f = entry.fsm
        /\ trace[1].res \in CbResults
        /\ <<inbuf, outbuf, readable, writable>> =
             <<entry.inbuf, entry.outbuf, entry.readable, entry.writable>>
        /\ result = "Stop" <=> trace[1].res = "Stop"
        /\ result = "Stop" => conn = "dropped"
        /\ result # "Stop" =>
              /\ result = "Continue" /\ conn = "live"
              /\ fsm = NextFsm(entry.fsm)

\* a wakeup delivered while input and unflushed output are buffered
C14_Witness ==
    /\ Returned("wakeup") /\ result = "Continue"
    /\ inbuf # <<>> /\ outbuf # <<>> /\ ~writable
    /\ trace = <<Callback("wakeup", entry.fsm, "Continue", 0, 0)>>

(* ------------------------ Transport on its own ------------------------ *)
\* b"spam", b"foobar" and b"bar" of test_transport
Spam == <<115, 112, 97, 109>>
Foobar == <<102, 111, 111, 98, 97, 114>>
Bar == <<98, 97, 114>>
\* prior contents of the two buffers a Transport is built from
TestBufs == {<<>>, Spam, <<1, 2>>, <<9>>}
\* byte strings appended through the Transport
TestAppends == {<<>>, Foobar, <<5>>}

\* the block of test_transport: append x through input(), then consume n
via_input(t, x, n) == Transport(consume(extend(input(t), x), n), output(t))
\* the same block going through output()
via_output(t, x, n) == Transport(input(t), consume(extend(output(t), x), n))

\* two buffers with prior contents, no Transport built yet
TransportInit ==
    /\ conn = "none" /\ registered = FALSE /\ fsm = "s0"
    /\ inbuf \in TestBufs /\ outbuf \in TestBufs
    /\ readable = FALSE /\ writable = FALSE
    /\ pc = "test" /\ call = "none"
    /\ evset = [r |-> FALSE, w |-> FALSE]
    /\ monad = "Continue" /\ result = "None"
    /\ trace = <<>>
    /\ entry = Snapshot
    /\ lastR = "none" /\ lastW = "none"
    /\ pending = <<>> /\ txOK = TRUE /\ mark = 0

\* build a Transport over the two buffers and run block on it; the appended
\* bytes are kept in pending and the consumed count in mark
UseTransport(which, x, n) ==
    /\ pc = "test"
    /\ LET t == Transport(inbuf, outbuf)
           t2 == IF which = "input" THEN via_input(t, x, n)
                                    ELSE via_output(t, x, n)
       IN  /\ inbuf' = input(t2)
           /\ outbuf' = output(t2)
    /\ pc' = "tested" /\ call' = which
    /\ pending' = x /\ mark' = n
    /\ UNCHANGED <<conn, registered, fsm, readable, writable, evset, monad,
                   result, trace, entry, lastR, lastW, txOK>>

UseInput ==
    \E x \in TestAppends : \E n \in 0..(Len(inbuf) + Len(x)) :
        UseTransport("input", x, n)

UseOutput ==
    \E x \in TestAppends : \E n \in 0..(Len(outbuf) + Len(x)) :
        UseTransport("output", x, n)

TransportNext == UseInput \/ UseOutput

TransportSpec == TransportInit /\ [][TransportNext]_vars

\* C15: a Transport gives access to exactly the two buffers it was built
\* from, never swapped: appending X and then consuming n bytes through one
\* accessor leaves that buffer holding its prior content followed by X
\* without the first n bytes, and the other buffer as it was; with
\* b"spam", b"foobar" and 7 through input() the inbound buffer is b"bar".
C15_TransportPlumbing ==
    pc = "tested" =>
        LET prior == IF call = "input" THEN entry.inbuf ELSE entry.outbuf
            all == prior \o pending
            rest == [i \in 1..(Len(all) - mark) |-> all[i + mark]]
        IN  /\ call = "input" => (inbuf = rest /\ outbuf = entry.outbuf)
            /\ call = "output" => (outbuf = rest /\ inbuf = entry.inbuf)
            /\ (call = "input" /\ entry.inbuf = Spam /\ pending = Foobar
                  /\ mark = Len(Spam) + 3) => inbuf = Bar

\* test_transport itself, run beside a non-empty outbound buffer
C15_Witness ==
    /\ pc = "tested" /\ call = "input"
    /\ entry.inbuf = Spam /\ pending = Foobar /\ mark = Len(Spam) + 3
    /\ inbuf = Bar
    /\ entry.outbuf = <<1, 2>> /\ outbuf = <<1, 2>>

\* the protocol methods invoked by the call, terminal notifications included
Callbacks == SelectSeq(trace, IsCallback)

\* C16: within a ready call each callback is invoked on the state the
\* preceding callback of the call returned, the first on the stored state;
\* every write that transferred bytes is followed by exactly one
\* data_transferred; on Continue the connection is rebuilt with the state the
\* last callback returned (the stored one if none ran).
C16_StateThreading ==
    InCall({"ready"}) =>
        /\ \A k \in DOMAIN Callbacks :
              /\ Callbacks[k].f = IF k = 1 THEN entry.fsm
                                          ELSE NextFsm(Callbacks[k - 1].f)
              /\ k < Len(Callbacks) => Callbacks[k].res = "Continue"
        /\ \A i \in DOMAIN trace :
              /\ (IsWrite(trace[i]) /\ trace[i].res = "ok") =>
                    /\ trace[i].n > 0
                    /\ i < Len(trace)
                    /\ trace[i + 1].op = "data_transferred"
                    /\ trace[i + 1].n = trace[i].n
              /\ trace[i].op = "data_transferred" =>
                    /\ i > 1
                    /\ IsWrite(trace[i - 1]) /\ trace[i - 1].res = "ok"
        /\ (pc = "idle" /\ result = "Continue") =>
              /\ conn = "live"
              /\ fsm = IF Callbacks = <<>> THEN entry.fsm
                        ELSE NextFsm(Callbacks[Len(Callbacks)].f)

\* a call that ran data_transferred twice and then data_received
C16_Witness ==
    /\ Returned("ready") /\ result = "Continue"
    /\ Len(Callbacks) = 3
    /\ Callbacks[1].op = "data_transferred" /\ Callbacks[1].f = entry.fsm
    /\ Callbacks[2].op = "data_transferred" /\ Callbacks[2].f # entry.fsm
    /\ Callbacks[3].op = "data_received" /\ Callbacks[3].f = entry.fsm
    /\ fsm # entry.fsm

\* C17: once a write attempt reported would-block, no write is attempted in
\* the rest of that call nor in any later ready, timeout or wakeup call
\* until a ready call whose event set marks writable; a read is attempted
\* only within a ready call whose event set marks readable.
C17_NoBusyRetry ==
    /\ [](\A i \in DOMAIN trace : \A j \in DOMAIN trace :
            (i < j /\ trace[i] = Attempt("write", "wb", 0)) => ~IsWrite(trace[j]))
    /\ []((\E i \in DOMAIN trace : IsAttempt(trace[i])) => call = "ready")
    /\ [](Reads # <<>> => evset.r)
    /\ [][(AttemptStep("write") /\ lastW = "wb") =>
              (call = "ready" /\ evset.w)]_vars
    /\ [][AttemptStep("read") => (call = "ready" /\ evset.r)]_vars

\* output held back by an earlier would-block stays untouched through a
\* readable-only event
C17_Witness ==
    /\ Returned("ready") /\ result = "Continue"
    /\ evset = [r |-> TRUE, w |-> FALSE]
    /\ entry.outbuf # <<>> /\ ~entry.writable /\ lastW = "wb"
    /\ Reads # <<>> /\ Writes = <<>>
    /\ outbuf # <<>>

\* the step is an interrupted attempt and nothing else
InterruptedStep ==
    \E op \in {"read", "write"} : TransientStep(op, "intr")

\* C18: a ready call never blocks: with finitely many interrupted results
\* and finitely many successful transfers (at most MaxTrace logged events
\* of these kinds) the call makes at most three further log entries and
\* returns. The retry after an interrupted result is itself unbounded: the
\* call keeps no count of it, the step leaves everything but the log as it
\* was, so the same attempt is due again for as long as the socket
\* interrupts, with no callback in between.
C18_ReadyReturns ==
    /\ (pc # "idle") ~> (pc = "idle")
    /\ [](Len(trace) <= MaxTrace + 3)
    /\ [][InterruptedStep =>
            UNCHANGED <<conn, registered, fsm, stream, pc, call, evset, monad,
                        result, entry, pending, txOK, mark>>]_vars

\* a call that was interrupted, used up its transfers and returned
C18_Witness ==
    /\ Returned("ready")
    /\ \E i \in DOMAIN trace : trace[i].res = "intr"
    /\ Len(trace) > MaxTrace
    /\ trace[Len(trace)].op = "eof_received"

\* a Stream exists and no call is running on it
BetweenCalls == pc = "idle" /\ conn = "live"

\* C19: between calls (after accept and after every call returning
\* Continue) a non-empty outbound buffer implies the cached writable flag is
\* false: leftover output always awaits a writable notification.
C19_LeftoverAwaitsWritable ==
    (BetweenCalls /\ outbuf # <<>>) => ~writable

\* output appended by data_received on a readable-only event met a
\* would-block in the opportunistic flush
C19_Witness ==
    /\ Returned("ready") /\ result = "Continue" /\ conn = "live"
    /\ evset = [r |-> TRUE, w |-> FALSE]
    /\ entry.outbuf = <<>> /\ entry.writable
    /\ Writes = <<Attempt("write", "wb", 0)>>
    /\ outbuf # <<>> /\ ~writable

\* C20: between calls the cached readable flag is false: it is set only
\* inside a ready call and a fill loop that does not end the connection
\* ends with a would-block, which clears it.
C20_ReadableFalseBetweenCalls ==
    BetweenCalls => ~readable

\* a readable event whose fill loop read data and then hit would-block
C20_Witness ==
    /\ Returned("ready") /\ result = "Continue" /\ conn = "live"
    /\ evset.r
    /\ Len(Reads) >= 2 /\ Reads[1].res = "ok"
    /\ Reads[Len(Reads)] = Attempt("read", "wb", 0)
    /\ ~readable

====
